---- MODULE Spec2Model ----
(***************************************************************************)
(* The fixed-interval latency sampler of chapter-02/ping.py.               *)
(*                                                                         *)
(* The script is one sequential program.  It is cut into steps at the      *)
(* points where it blocks or terminates: argument parsing, the head of the *)
(* for loop (which calls ping), the return of ping (lines 15-19 up to the  *)
(* blocking time.sleep), the end of the sleep, and the final to_csv.       *)
(*                                                                         *)
(* Time is counted in ticks, Resolution ticks to the second, so that a     *)
(* latency can be shorter than, equal to, or longer than the interval.     *)
(* ping (ping3) and to_csv (pandas) are library calls; they are modelled   *)
(* by the results they can hand back to the script:                        *)
(*   ping    -> None (timeout), False (error, e.g. unknown host) or a      *)
(*              float, the measured round trip.  The measurement runs from *)
(*              the send timestamp while the timeout bounds only the wait  *)
(*              for the reply, so a float above the timeout is possible,   *)
(*              and a coarse clock can measure 0.0.                        *)
(*   to_csv  -> the file is written, or an OSError is raised and the file  *)
(*              is left as it was.                                         *)
(***************************************************************************)
EXTENDS Integers, Sequences, FiniteSets

VARIABLES pc, host, samples, i, values, stdout, fs, now, starts, results, slept

vars == <<pc, host, samples, i, values, stdout, fs, now, starts, results, slept>>

(* ------------------------------ bounds --------------------------------- *)

\* largest sample count given on the command line
MaxSamples == 3

\* clock ticks per second
Resolution == 2

\* how far (in ticks) a measured latency can exceed the timeout, and how
\* much longer than its measurement (or its timeout) a ping call can take
MaxOver == 1

(* --------------------------- configuration ----------------------------- *)

\* ping.py:11  interval = 1   (seconds)
interval == 1

\* the interval in clock ticks
T == interval * Resolution

Hosts == {"example.test", "google.com"}

(* ------------------------- argument parsing ---------------------------- *)

Digits == <<"0", "1", "2", "3", "4", "5", "6", "7", "8", "9">>

IsDigit(c) == \E k \in 1..Len(Digits) : Digits[k] = c

DigitVal(c) == (CHOOSE k \in 1..Len(Digits) : Digits[k] = c) - 1

RECURSIVE DigitsVal(_)
DigitsVal(s) ==
    IF s = <<>> THEN 0
    ELSE 10 * DigitsVal(SubSeq(s, 1, Len(s) - 1)) + DigitVal(s[Len(s)])

\* a parse that falls back to 0 where int() raises
IntOrZero(s) ==
    LET neg  == s # <<>> /\ s[1] = "-"
        body == IF neg THEN Tail(s) ELSE s
        ok   == body # <<>> /\ \A k \in 1..Len(body) : IsDigit(body[k])
    IN  [ok  |-> TRUE,
         val |-> IF ok THEN (IF neg THEN 0 - DigitsVal(body) ELSE DigitsVal(body))
                 ELSE 0]

\* Python's int() on a string: an optional sign followed by at least one
\* decimal digit; anything else raises ValueError (ok = FALSE).
int(s) ==
    LET neg  == s # <<>> /\ s[1] = "-"
        body == IF neg THEN Tail(s) ELSE s
        ok   == body # <<>> /\ \A k \in 1..Len(body) : IsDigit(body[k])
    IN  [ok  |-> ok,
         val |-> IF ok THEN (IF neg THEN 0 - DigitsVal(body) ELSE DigitsVal(body))
                 ELSE 0]

ArgChars == {"-", "x"} \cup {Digits[k] : k \in 1..(MaxSamples + 1)}

\* The command lines explored: every one- or two-character samples argument
\* that fails to parse or that asks for 0..MaxSamples samples ("-0" and "03"
\* included).  Negative counts, for which range() is empty, are left out.
SamplesArgs ==
    {s \in {<<c>> : c \in ArgChars} \cup {<<c, d>> : c, d \in ArgChars} :
        ~int(s).ok \/ (0 <= int(s).val /\ int(s).val <= MaxSamples)}

\* int(args.samples), the requested sample count
N == int(samples).val

(* ------------------------------ values --------------------------------- *)

None == [kind |-> "None", secs |-> 0]

False == [kind |-> "bool", secs |-> 0]

Float(e) == [kind |-> "float", secs |-> e]

\* What ping(host, timeout=interval) can return.
PingResults == {None, False} \cup {Float(e) : e \in 0..(T + MaxOver)}

\* How long the call can take, by what it returns: a timeout waits out the
\* whole timeout, an error can come back at any moment before that, and a
\* measurement takes at least the measured round trip.
PingDurations(v) ==
    CASE v.kind = "None"  -> {T, T + MaxOver}
      [] v.kind = "bool"  -> 0..T
      [] v.kind = "float" -> {v.secs, v.secs + MaxOver}

\* `value is None` in place of `not value`
IsNone(v) == v.kind = "None"

\* ping.py:15  `not value`: None, False and 0.0 are all falsy
Falsy(v) == v.kind = "None" \/ v.kind = "bool" \/ (v.kind = "float" /\ v.secs = 0)

\* time.sleep(interval)
SleepWholeInterval(v) == T

\* ping.py:19  the argument of time.sleep
SleepArg(v) == T - v.secs

\* range(0, n + 1)
RangeInclusive(k, n) == k <= n

\* ping.py:13  range(0, n) has a next element after k elements were drawn
HasNext(k, n) == k < n

Warning == "warning: ping timed out, latency outlier not measured"

(* ------------------------------- files --------------------------------- *)

\* ping.py:22
Output(h) == <<"ping-", h, ".csv">>

Files == {Output(h) : h \in Hosts}

Absent == [exists |-> FALSE, header |-> <<>>, rows |-> <<>>]

\* a file left behind by an earlier run
OldFile == [exists |-> TRUE, header |-> <<"Latency_secs">>, rows |-> <<T, T>>]

\* The working directory before the run: one output file exists already,
\* the other does not.
InitialFs == [f \in Files |-> IF f = Output("google.com") THEN OldFile ELSE Absent]

\* to_csv with the index column left on
ToCsvWithIndex(vs) ==
    [exists |-> TRUE, header |-> <<"", "Latency_secs">>, rows |-> vs]

\* ping.py:21-23  DataFrame({"Latency_secs": values}).to_csv(.., index=False)
ToCsv(vs) == [exists |-> TRUE, header |-> <<"Latency_secs">>, rows |-> vs]

(* ------------------------------ actions -------------------------------- *)

Init ==
    /\ pc = "start"
    /\ host \in Hosts
    /\ samples \in SamplesArgs
    /\ i = 0
    /\ values = <<>>
    /\ stdout = <<>>
    /\ fs = InitialFs
    /\ now = 0
    /\ starts = <<>>
    /\ results = <<>>
    /\ slept = <<>>

\* ping.py:6-13  the arguments parse; the range is built
StartOk ==
    /\ pc = "start"
    /\ int(samples).ok
    /\ pc' = "loop"
    /\ UNCHANGED <<host, samples, i, values, stdout, fs, now, starts, results, slept>>

\* ping.py:13  int(args.samples) raises ValueError
StartFails ==
    /\ pc = "start"
    /\ ~int(samples).ok
    /\ pc' = "parse_error"
    /\ UNCHANGED <<host, samples, i, values, stdout, fs, now, starts, results, slept>>

\* ping.py:13-14  next iteration: ping is called
IssueProbe ==
    /\ pc = "loop"
    /\ HasNext(i, N)
    /\ i' = i + 1
    /\ starts' = Append(starts, now)
    /\ pc' = "probing"
    /\ UNCHANGED <<host, samples, values, stdout, fs, now, results, slept>>

\* ping.py:13  the range is exhausted
LoopExit ==
    /\ pc = "loop"
    /\ ~HasNext(i, N)
    /\ pc' = "write"
    /\ UNCHANGED <<host, samples, i, values, stdout, fs, now, starts, results, slept>>

\* ping.py:14-19  what the loop body does with the value v that ping hands
\* back after d ticks, up to the point where it blocks in time.sleep
Body(v, d) ==
    /\ now' = now + d
    /\ results' = Append(results, [value |-> v, ret |-> now + d])
    /\ IF Falsy(v)
       THEN /\ stdout' = Append(stdout, Warning)
            /\ pc' = "loop"
            /\ UNCHANGED <<values, slept>>
       ELSE /\ values' = Append(values, v.secs)
            /\ stdout' = stdout
            /\ IF SleepArg(v) < 0
               THEN \* time.sleep raises ValueError; nothing catches it
                    /\ pc' = "sleep_error"
                    /\ slept' = slept
               ELSE /\ pc' = "sleeping"
                    /\ slept' = Append(slept, SleepArg(v))

PingReturnsCheckpoint ==
    /\ pc = "probing"
    /\ \E v \in PingResults : \E d \in PingDurations(v) : Body(v, d)
    /\ fs' = [fs EXCEPT ![Output(host)] = ToCsv(values')]
    /\ UNCHANGED <<host, samples, i, starts>>

\* ping.py:14-19  ping returns and the rest of the iteration runs
PingReturns ==
    /\ pc = "probing"
    /\ \E v \in PingResults : \E d \in PingDurations(v) : Body(v, d)
    /\ UNCHANGED <<host, samples, i, fs, starts>>

\* ping.py:19  time.sleep returns
Wake ==
    /\ pc = "sleeping"
    /\ now' = now + slept[Len(slept)]
    /\ pc' = "loop"
    /\ UNCHANGED <<host, samples, i, values, stdout, fs, starts, results, slept>>

\* ping.py:21-23  the table is written
WriteOk ==
    /\ pc = "write"
    /\ fs' = [fs EXCEPT ![Output(host)] = ToCsv(values)]
    /\ pc' = "done"
    /\ UNCHANGED <<host, samples, i, values, stdout, now, starts, results, slept>>

\* ping.py:23  to_csv raises
WriteFails ==
    /\ pc = "write"
    /\ pc' = "write_error"
    /\ UNCHANGED <<host, samples, i, values, stdout, fs, now, starts, results, slept>>

Next ==
    \/ StartOk
    \/ StartFails
    \/ IssueProbe
    \/ LoopExit
    \/ PingReturns
    \/ Wake
    \/ WriteOk
    \/ WriteFails

Spec == Init /\ [][Next]_vars

(* ------------------------ vocabulary of the claims --------------------- *)

\* the run got past argument parsing
Parsed == int(samples).ok

\* the loop is over and the run is at, or past, the persistence step
AtPersistence == pc \in {"write", "done", "write_error"}

\* the run has stopped
Terminated == pc \in {"done", "write_error", "sleep_error", "parse_error"}

\* A probe that produced no measurement: a timeout (None) or a host that
\* cannot be resolved or reached (False).
TimedOut(v) == v.kind \in {"None", "bool"}

\* A probe that came back with a measured round trip.
Successful(v) == v.kind = "float"

\* the indices of the finished probes whose result satisfies P
Probes(P(_)) == {k \in DOMAIN results : P(results[k].value)}

RECURSIVE Latencies(_)
\* the measured latencies of a sequence of probe results, in order
Latencies(rs) ==
    IF rs = <<>> THEN <<>> ELSE <<rs[1].value.secs>> \o Latencies(Tail(rs))

NotTimedOut(r) == ~TimedOut(r.value)

\* the output file of this run
Out == fs[Output(host)]

(* -------------------------------- C1 ----------------------------------- *)

\* C1: the collected sequence never holds more than N values, and when the
\* run reaches persistence it holds exactly N values if and only if no probe
\* timed out.
C1_LengthIffNoTimeout ==
    Parsed =>
        /\ Len(values) <= N
        /\ AtPersistence => (Len(values) = N <=> Probes(TimedOut) = {})

(* -------------------------------- C2 ----------------------------------- *)

\* C2: the rows persisted are the latencies of all N probe results with the
\* timed-out ones removed, in issuance order, nothing added and nothing
\* dropped.
C2_RowsAreSuccessfulLatencies ==
    pc = "done" =>
        /\ Len(results) = N
        /\ Out.rows = Latencies(SelectSeq(results, NotTimedOut))

(* -------------------------------- C3 ----------------------------------- *)

\* C3: every recorded latency e satisfies 0 <= e <= T and is followed by a
\* pacing sleep of exactly T - e, which is never negative (zero when e = T).
C3_SleepIsIntervalMinusLatency ==
    /\ Len(slept) = Len(values)
    /\ \A k \in DOMAIN values :
        /\ 0 <= values[k] /\ values[k] <= T
        /\ k \in DOMAIN slept => (slept[k] = T - values[k] /\ slept[k] >= 0)

(* -------------------------------- C4 ----------------------------------- *)

\* C4 as stated: whatever the outcome of probe k, probe k+1 starts exactly T
\* after probe k started.
C4_FixedStartInterval ==
    \A k \in 1..(Len(starts) - 1) : starts[k + 1] - starts[k] = T

\* C4 as amended: after a recorded latency e <= T the next probe starts
\* exactly T - e after ping returned; after a result that is not recorded
\* (timeout, error, zero) it starts at the moment ping returned.  So the two
\* starts are T apart exactly when the ping call lasted e (recorded) or T
\* (not recorded).
C4_PacedFromReturn ==
    \A k \in 1..(Len(starts) - 1) :
        LET r        == results[k]
            recorded == r.value.kind = "float" /\ r.value.secs > 0
            took     == r.ret - starts[k]
        IN  /\ recorded => r.value.secs <= T
            /\ starts[k + 1] = r.ret + (IF recorded THEN T - r.value.secs ELSE 0)
            /\ (starts[k + 1] - starts[k] = T)
                   <=> (took = IF recorded THEN r.value.secs ELSE T)

\* a run in which one probe was paced after a latency below T and another
\* probe failed early and was followed at once
C4_Witness ==
    /\ Len(starts) = 3
    /\ \E j, k \in 1..2 :
        /\ results[j].value.kind = "float" /\ results[j].value.secs \in 1..(T - 1)
        /\ starts[j + 1] - starts[j] = T
        /\ results[k].value.kind = "bool"
        /\ starts[k + 1] - starts[k] < T

(* -------------------------------- C5 ----------------------------------- *)

\* C5: a timed-out probe leaves one warning and nothing else, so at the end
\* of a run the warnings are as many as the timed-out probes, and warnings
\* plus recorded rows make N.
C5_WarningsAreTimeouts ==
    (Parsed /\ AtPersistence) =>
        /\ Len(stdout) = Cardinality(Probes(TimedOut))
        /\ Len(stdout) + Len(values) = N
        /\ \A k \in DOMAIN stdout : stdout[k] = Warning

(* -------------------------------- C6 ----------------------------------- *)

\* C6: with N = 0 no probe is issued, no warning is printed, nothing sleeps,
\* the run goes straight to the persistence step, and the file it writes has
\* the header and no data row.
C6_ZeroSamples ==
    (Parsed /\ N = 0) =>
        /\ starts = <<>> /\ results = <<>> /\ stdout = <<>> /\ slept = <<>>
        /\ pc \in {"start", "loop", "write", "done", "write_error"}
        /\ pc = "done" =>
              Out = [exists |-> TRUE, header |-> <<"Latency_secs">>, rows |-> <<>>]

C6_Witness == Parsed /\ N = 0 /\ pc = "done" /\ host = "google.com"

(* -------------------------------- C7 ----------------------------------- *)

\* what makes an argument over ArgChars no integer literal: a letter
\* anywhere, or a sign that is not followed by a digit
Malformed(s) == (\E k \in DOMAIN s : s[k] = "x") \/ s[Len(s)] = "-"

\* C7: when the samples argument is no integer the run stops at startup: no
\* probe is ever issued, no warning printed and no file touched.
C7_ParseErrorIsFatal ==
    Malformed(samples) =>
        /\ pc \in {"start", "parse_error"}
        /\ starts = <<>> /\ stdout = <<>> /\ values = <<>>
        /\ fs = InitialFs

C7_Witness == pc = "parse_error" /\ Malformed(samples) /\ samples = <<"1", "x">>

(* -------------------------------- C8 ----------------------------------- *)

C9_ExactlyNProbesThenPersist ==
    Parsed =>
        /\ Len(starts) = i /\ i <= N
        /\ Len(starts) - Len(results) \in {0, 1}
        /\ Len(starts) - Len(results) = 1 <=> pc = "probing"
        /\ Terminated => (Len(starts) = N /\ pc \in {"done", "write_error"})

(* -------------------------------- C10 ---------------------------------- *)

\* C10: every collected value is strictly positive; a probe that returns
\* 0.0, False or None leaves a warning, no value and no sleep.
C10_OnlyPositiveValues ==
    /\ \A k \in DOMAIN values : values[k] > 0
    /\ Len(values) = Cardinality({k \in DOMAIN results :
                         results[k].value.kind = "float" /\ results[k].value.secs > 0})
    /\ Len(stdout) = Cardinality({k \in DOMAIN results :
                         \/ results[k].value.kind \in {"None", "bool"}
                         \/ results[k].value.secs = 0})
    /\ Len(slept) <= Len(values)
    /\ pc = "done" => \A k \in DOMAIN Out.rows : Out.rows[k] > 0

C10_Witness ==
    /\ pc = "done"
    /\ \E j, k \in DOMAIN results :
        /\ results[j].value = Float(0)
        /\ results[k].value = False
    /\ Len(values) = 1

====
